---- MODULE Spec2Model ----
(***************************************************************************)
(* dateorgimgs (src/src/main.rs): scan a directory for images, group raw   *)
(* and camera-JPG files by base path, order the groups by capture date     *)
(* and rename every file (and its .xmp sidecar) to                         *)
(*   "<index> <date> [<prefix> ]<model>.<ext>[.xmp]".                      *)
(*                                                                         *)
(* Strings and paths are sequences of byte values, so that the path        *)
(* operations (parent, file_name, file_stem, extension, split, join), the  *)
(* formatting of counter and date and the byte-wise string order are       *)
(* computed as the program computes them.  Option<T> is a sequence of      *)
(* length 0 (None) or 1 (Some).                                            *)
(***************************************************************************)
EXTENDS Integers, Sequences, FiniteSets, TLC

\* ------------------------------------------------------------------ bounds

\* Largest number of image files in the scanned directory.
MaxFiles == 3
\* Number of consecutive invocations of the program on the same directory.
MaxRuns == 2
\* Largest number of groups in the counter-width specification.
MaxWidthGroups == 11

\* ----------------------------------------------------------------- strings

\* Byte values of the characters the program's format strings use.
Ch == [slash |-> 47, dot |-> 46, sp |-> 32, dash |-> 45, colon |-> 58, zero |-> 48]

None == << >>
Some(x) == << x >>
IsSome(o) == Len(o) = 1
Unwrap(o) == o[1]

Max(S) == CHOOSE x \in S : \A y \in S : y <= x

\* Position of the last occurrence of byte c in s, 0 when there is none.
LastIndexOf(s, c) == Max({0} \cup {i \in 1..Len(s) : s[i] = c})

\* Position of the first occurrence of byte c in s, Len(s)+1 when there is none.
FirstIndexOf(s, c) == CHOOSE i \in 1..(Len(s) + 1) :
    /\ (i <= Len(s) => s[i] = c)
    /\ \A j \in 1..(i - 1) : s[j] # c

\* u8::to_ascii_lowercase on every byte.
to_ascii_lowercase(s) == [i \in 1..Len(s) |-> IF s[i] >= 65 /\ s[i] <= 90 THEN s[i] + 32 ELSE s[i]]

\* String's Ord: byte-wise lexicographic, a proper prefix is smaller.
StrLess(a, b) == \E i \in 1..(Len(b)) :
    /\ \A j \in 1..(i - 1) : j <= Len(a) /\ a[j] = b[j]
    /\ (i > Len(a) \/ a[i] < b[i])

\* str::split(c), collected into a Vec.
RECURSIVE split(_, _)
split(s, c) == LET i == FirstIndexOf(s, c)
               IN  IF i > Len(s) THEN << s >>
                   ELSE << SubSeq(s, 1, i - 1) >> \o split(SubSeq(s, i + 1, Len(s)), c)

\* [&str]::join(sep).
RECURSIVE join_strs(_, _)
join_strs(parts, sep) == IF Len(parts) = 0 THEN << >>
                         ELSE IF Len(parts) = 1 THEN parts[1]
                         ELSE parts[1] \o sep \o join_strs(Tail(parts), sep)

\* Decimal digits of n >= 0, as the {} formatter prints an integer.
RECURSIVE Decimal(_)
Decimal(n) == IF n < 10 THEN << Ch.zero + n >>
              ELSE Decimal(n \div 10) \o << Ch.zero + (n % 10) >>

\* {:0width$}: zero-padded on the left to at least width characters.
RECURSIVE ZeroPad(_, _)
ZeroPad(s, width) == IF Len(s) >= width THEN s ELSE ZeroPad(<< Ch.zero >> \o s, width)

\* ------------------------------------------------------------------- paths

\* Path::parent and Path::file_name of "<dir>/<name>".
parent(p) == SubSeq(p, 1, LastIndexOf(p, Ch.slash) - 1)
file_name(p) == SubSeq(p, LastIndexOf(p, Ch.slash) + 1, Len(p))
join(dir, name) == dir \o << Ch.slash >> \o name

\* Path::extension: None without an embedded '.', or when the only '.' leads.
extension(p) == LET n == file_name(p)
                    i == LastIndexOf(n, Ch.dot)
                IN  IF i <= 1 THEN None ELSE Some(SubSeq(n, i + 1, Len(n)))

\* Path::file_stem: the name without its extension.
file_stem(p) == LET n == file_name(p)
                    i == LastIndexOf(n, Ch.dot)
                IN  IF i <= 1 THEN n ELSE SubSeq(n, 1, i - 1)

ExtNef == << 110, 101, 102 >>
ExtRaf == << 114, 97, 102 >>
ExtJpg == << 106, 112, 103 >>
ExtXmp == << 120, 109, 112 >>

\* ------------------------------------------------------------------- dates

IsDigit(c) == c >= 48 /\ c <= 57
\* Value of the two decimal digits of s at positions i, i+1.
Num2(s, i) == (s[i] - Ch.zero) * 10 + (s[i + 1] - Ch.zero)

IsLeap(y) == (y % 4 = 0 /\ y % 100 # 0) \/ y % 400 = 0
DaysIn(y, m) == IF m = 2 THEN (IF IsLeap(y) THEN 29 ELSE 28)
                ELSE IF m \in {4, 6, 9, 11} THEN 30 ELSE 31

\* NaiveDateTime::parse_from_str(s, "%Y:%m:%d  %H:%M:%S") on a tag of the EXIF
\* shape "YYYY:MM:DD HH:MM:SS": Some(<<Y, M, D, h, m, s>>), or None (Err)
\* when the shape is wrong or a field is out of range.
parse_from_str(s) ==
    IF /\ Len(s) = 19
       /\ \A i \in {5, 8, 14, 17} : s[i] = Ch.colon
       /\ s[11] = Ch.sp
       /\ \A i \in (1..19) \ {5, 8, 11, 14, 17} : IsDigit(s[i])
    THEN LET y  == Num2(s, 1) * 100 + Num2(s, 3)
             mo == Num2(s, 6)
             d  == Num2(s, 9)
             h  == Num2(s, 12)
             mi == Num2(s, 15)
             se == Num2(s, 18)
         IN  IF /\ mo >= 1 /\ mo <= 12
                /\ d >= 1 /\ d <= DaysIn(y, mo)
                /\ h <= 23 /\ mi <= 59 /\ se <= 59
             THEN Some(<< y, mo, d, h, mi, se >>)
             ELSE None
    ELSE None

\* NaiveDateTime's Ord: date, then time of day.
DateLess(a, b) == \E i \in 1..6 : a[i] < b[i] /\ \A j \in 1..(i - 1) : a[j] = b[j]

\* NaiveDateTime::format("%Y-%m-%d %H-%M-%S").
format_date(d) ==
    ZeroPad(Decimal(d[1]), 4) \o << Ch.dash >> \o ZeroPad(Decimal(d[2]), 2) \o << Ch.dash >>
    \o ZeroPad(Decimal(d[3]), 2) \o << Ch.sp >> \o ZeroPad(Decimal(d[4]), 2) \o << Ch.dash >>
    \o ZeroPad(Decimal(d[5]), 2) \o << Ch.dash >> \o ZeroPad(Decimal(d[6]), 2)

\* ----------------------------------------------------------------- ImgInfo

\* ImgInfo { path, sidecar_path, date, model }.
ImgInfo(path, sidecar_path, date, model) ==
    [path |-> path, sidecar_path |-> sidecar_path, date |-> date, model |-> model]

\* ImgInfo::base_path: parent joined with the file stem.
base_path(img) == join(parent(img.path), file_stem(img.path))

\* ImgInfo::role: the extension is unwrapped, lower-cased and matched.
role_panics(img) == ~IsSome(extension(img.path))
role(img) == LET e == to_ascii_lowercase(Unwrap(extension(img.path)))
             IN  IF e = ExtNef \/ e = ExtRaf THEN Some("Raw")
                 ELSE IF e = ExtJpg THEN Some("CameraJPG")
                 ELSE None

\* ------------------------------------------------------------ file system

\* A directory entry's content: kind "img" | "xmp" | "dir"; orig is the path
\* the entry had when the model started (its identity); meta is what rexiv2
\* reads (None: Metadata::new_from_path fails), with the two tags as
\* Option<String>; xml is what minidom parses (None: not an XML document).
Meta(date, model) == [date |-> date, model |-> model]
Xml(rdf, desc, derived) == [rdf |-> rdf, desc |-> desc, derived |-> derived]
Entry(kind, orig, meta, xml) == [kind |-> kind, orig |-> orig, meta |-> meta, xml |-> xml]

\* Path::is_file.
is_file(f, p) == p \in DOMAIN f /\ f[p].kind # "dir"

\* find_sidecar_path: "<file name>.xmp" beside the image, when it is a file.
find_sidecar_path(f, img_path) ==
    LET sidecar_path == join(parent(img_path), file_name(img_path) \o << Ch.dot >> \o ExtXmp)
    IN  IF is_file(f, sidecar_path) THEN Some(sidecar_path) ELSE None

\* read_img: "err" is Err(..) (new_from_path or the date tag's `?`), "panic" is
\* one of the two unwrap()s (model tag, date parse), "ok" carries the ImgInfo.
read_img(f, p) ==
    LET m == f[p].meta
    IN  IF ~IsSome(m) THEN [res |-> "err", img |-> None]
        ELSE IF ~IsSome(Unwrap(m).date) THEN [res |-> "err", img |-> None]
        ELSE IF ~IsSome(Unwrap(m).model) THEN [res |-> "panic", img |-> None]
        ELSE IF ~IsSome(parse_from_str(Unwrap(Unwrap(m).date))) THEN [res |-> "panic", img |-> None]
        ELSE [res |-> "ok",
              img |-> Some(ImgInfo(p, find_sidecar_path(f, p),
                                   Unwrap(parse_from_str(Unwrap(Unwrap(m).date))),
                                   Unwrap(Unwrap(m).model)))]

\* The entries scan_for_images keeps: not hidden, not a directory, not *.xmp.
scan_entries(f) == {p \in DOMAIN f :
    /\ file_name(p)[1] # Ch.dot
    /\ f[p].kind # "dir"
    /\ extension(p) # Some(ExtXmp)}

\* All orders in which read_dir may deliver a set of entries.
Orderings(S) == {s \in [1..Cardinality(S) -> S] : \A i, j \in DOMAIN s : i # j => s[i] # s[j]}

\* filter_map(..).collect(): the Ok images, in the order of the entries.
RECURSIVE collect_imgs(_, _)
collect_imgs(f, ord) ==
    IF Len(ord) = 0 THEN << >>
    ELSE LET r == read_img(f, Head(ord))
         IN  (IF r.res = "ok" THEN r.img ELSE << >>) \o collect_imgs(f, Tail(ord))

\* ---------------------------------------------------------------- ImgGroup

\* An ImgGroup is the sequence of its members in the order members.values()
\* yields them: HashMap iteration order is arbitrary, but fixed once the map
\* is no longer modified.
first_img(g) == g[1]
group_date(g) == first_img(g).date
group_base_path(g) == base_path(first_img(g))

Roles == {"Raw", "CameraJPG"}

\* A comparator that leaves out the date: base path only.
GroupLess_ByBasePath(a, b) == StrLess(group_base_path(a), group_base_path(b))

\* The comparator of img_groups.sort_by: date, then base path.
GroupLess(a, b) ==
    \/ DateLess(group_date(a), group_date(b))
    \/ /\ group_date(a) = group_date(b)
       /\ StrLess(group_base_path(a), group_base_path(b))

\* sort_by on groups with pairwise distinct keys: the group at position i
\* is the one with i-1 groups before it.
sort_by(G) == [i \in 1..Cardinality(G) |->
                 CHOOSE g \in G : Cardinality({h \in G : GroupLess(h, g)}) = i - 1]

\* The img HashMap::insert leaves in slot (key, r): the last one inserted.
slot_img(imgs, key, r) ==
    imgs[Max({i \in 1..Len(imgs) : base_path(imgs[i]) = key /\ role(imgs[i]) = Some(r)})]

slot_roles(imgs, key) ==
    {r \in Roles : \E i \in 1..Len(imgs) : base_path(imgs[i]) = key /\ role(imgs[i]) = Some(r)}

\* The orders in which members.values() may yield the members of group key.
member_orders(imgs, key) ==
    {[i \in 1..Len(o) |-> slot_img(imgs, key, o[i])] : o \in Orderings(slot_roles(imgs, key))}

\* The contents img_group_map can end with: for every key of keys one of
\* the orders its members can be iterated in.
RECURSIVE group_maps(_, _)
group_maps(imgs, keys) ==
    IF keys = {} THEN {{}}
    ELSE LET k == CHOOSE k \in keys : TRUE
         IN  {G \cup {g} : G \in group_maps(imgs, keys \ {k}), g \in member_orders(imgs, k)}

\* build_imgs_groups (when no role() call panics): every result the build
\* can produce, one per choice of iteration order inside the groups.
build_imgs_groups(imgs) ==
    {sort_by(G) : G \in group_maps(imgs, {base_path(imgs[i]) : i \in 1..Len(imgs)})}

\* role().unwrap() in build_imgs_groups panics on a file without extension
\* (extension().unwrap()) and on an extension that maps to no role.
build_panics(imgs) ==
    \E i \in 1..Len(imgs) : role_panics(imgs[i]) \/ ~IsSome(role(imgs[i]))

\* ------------------------------------------------------------- rename_file

RECURSIVE Pow10(_)
Pow10(d) == IF d = 0 THEN 1 ELSE 10 * Pow10(d - 1)

\* (n as f32).log10().ceil() for n >= 1, exact while n is exactly
\* representable in f32: the least d with 10^d >= n.
log10_ceil(n) == CHOOSE d \in 0..n : Pow10(d) >= n /\ \A e \in 0..(d - 1) : Pow10(e) < n

\* The width taken from the number of groups instead of that number plus 1.
index_width_no_plus_one(digits, ngroups) ==
    IF IsSome(digits) THEN Unwrap(digits)
    ELSE IF ngroups = 0 THEN 0 ELSE log10_ceil(ngroups)

\* The counter width reorganize_images uses.
index_width(digits, ngroups) ==
    IF IsSome(digits) THEN Unwrap(digits) ELSE log10_ceil(ngroups + 1)

\* The first value of the (1..) iterator zipped with the groups.
FirstIndex == 1

\* The suffix rename_file keeps: the last dot-separated part of the source
\* name, or the last two when the last one is "xmp" (case-insensitive).
suffix_of(src_file_name) ==
    LET parts == split(src_file_name, Ch.dot)
        n     == Len(parts)
        suffix_parts == IF to_ascii_lowercase(parts[n]) = ExtXmp THEN 2 ELSE 1
    IN  << Ch.dot >> \o join_strs(SubSeq(parts, n - suffix_parts + 1, n), << Ch.dot >>)

\* The date token of a file name: the image's own date.
date_str(img) == format_date(img.date)

\* format!("{:0digits$} {} {}{}") or, with a prefix, "{:0digits$} {} {} {}{}".
target_file_name(index, img, prefix, index_digits, suffix) ==
    IF Len(prefix) = 0
    THEN ZeroPad(Decimal(index), index_digits) \o << Ch.sp >> \o date_str(img) \o << Ch.sp >>
         \o img.model \o suffix
    ELSE ZeroPad(Decimal(index), index_digits) \o << Ch.sp >> \o date_str(img) \o << Ch.sp >>
         \o prefix \o << Ch.sp >> \o img.model \o suffix

\* std::fs::rename: fails when the source is gone or the target is a
\* directory; otherwise the target's previous content, if any, is replaced.
fs_rename_fails(f, src, dst) == src \notin DOMAIN f \/ (dst \in DOMAIN f /\ f[dst].kind = "dir")
fs_rename(f, src, dst) ==
    [p \in (DOMAIN f \ {src}) \cup {dst} |-> IF p = dst THEN f[src] ELSE f[p]]

\* A rename_file that does not look at dryrun before it renames.
does_rename_always(target_path, src_path, dryrun) == target_path # src_path

\* Whether rename_file calls std::fs::rename.
does_rename(target_path, src_path, dryrun) == target_path # src_path /\ ~dryrun

\* The path rename_file returns.
returned_path(target_path, src_path, dryrun) == IF dryrun THEN src_path ELSE target_path

\* rename_file: ok = FALSE is the Err of std::fs::rename; printed is the
\* "{src -> target}" line, when there is one; fs is the file system after.
rename_file(f, src_path, index, img, prefix, index_digits, dryrun) ==
    LET src_file_name == file_name(src_path)
        target_name   == target_file_name(index, img, prefix, index_digits,
                                          suffix_of(src_file_name))
        target_path   == join(parent(src_path), target_name)
        calls         == does_rename(target_path, src_path, dryrun)
        fails         == calls /\ fs_rename_fails(f, src_path, target_path)
    IN  [ok      |-> ~fails,
         printed |-> IF target_path # src_path
                     THEN Some(<< src_file_name, target_name >>) ELSE None,
         target  |-> target_name,
         fs      |-> IF calls /\ ~fails THEN fs_rename(f, src_path, target_path) ELSE f,
         path    |-> returned_path(target_path, src_path, dryrun)]

\* ---------------------------------------------------- rewrite_sidecar_file

\* The value written into xmpMM:DerivedFrom: img_path.to_str().
derived_from_value(img_path) == img_path

\* Whether rewrite_sidecar_file writes the document back.
writes_back(dryrun) == ~dryrun

\* rewrite_sidecar_file: ok = FALSE when the file cannot be read or parsed,
\* or has no rdf:RDF, no rdf:Description or no xmpMM:DerivedFrom.
rewrite_sidecar_file(f, sidecar_path, img_path, dryrun) ==
    LET readable == /\ is_file(f, sidecar_path)
                    /\ IsSome(f[sidecar_path].xml)
        doc      == Unwrap(f[sidecar_path].xml)
        found    == readable /\ doc.rdf /\ doc.desc /\ IsSome(doc.derived)
        patched  == Xml(doc.rdf, doc.desc, Some(derived_from_value(img_path)))
    IN  [ok |-> found,
         fs |-> IF found /\ writes_back(dryrun)
                THEN [f EXCEPT ![sidecar_path].xml = Some(patched)]
                ELSE f]

\* ------------------------------------------------------------------ inputs

\* The directory given as PATH, and the bytes of the names used below.
Dir == << 112 >>
ModelM == << 77 >>
PrefixP == << 80 >>

\* A DateTimeOriginal tag as a camera writes it: "YYYY:MM:DD HH:MM:SS".
exif_tag(d) ==
    ZeroPad(Decimal(d[1]), 4) \o << Ch.colon >> \o ZeroPad(Decimal(d[2]), 2) \o << Ch.colon >>
    \o ZeroPad(Decimal(d[3]), 2) \o << Ch.sp >> \o ZeroPad(Decimal(d[4]), 2) \o << Ch.colon >>
    \o ZeroPad(Decimal(d[5]), 2) \o << Ch.colon >> \o ZeroPad(Decimal(d[6]), 2)

D1 == << 2024, 1, 1, 12, 0, 0 >>
D2 == << 2024, 1, 1, 12, 0, 1 >>
\* The tag of a camera whose clock was never set: month and day 0.
DUnset == << 0, 0, 0, 0, 0, 0 >>

Prefixes == {<< >>, PrefixP}
\* --digits is absent or a value of 1..8.
DigitsOpts == {None, Some(2)}

\* One candidate of the directory: a name, a kind, what rexiv2 reads from it
\* and the state of its sidecar ("none", "ok", "noattr": no DerivedFrom).
Cand(name, kind, meta, side) == [name |-> name, kind |-> kind, meta |-> meta, side |-> side]
Photo(name, d, side) == Cand(name, "img", Some(Meta(Some(exif_tag(d)), Some(ModelM))), side)

\* The name an earlier run gave to the first of two groups taken at D1.
StaleName(pre, dig) ==
    target_file_name(FirstIndex, ImgInfo(<< >>, None, D1, ModelM), pre,
                     index_width(dig, 2), << Ch.dot >> \o ExtNef)

Pool(pre, dig) ==
    { Photo(<< 97, 46 >> \o ExtNef, D1, "ok"),                    \* a.nef
      Photo(<< 97, 46 >> \o ExtNef, D2, "noattr"),
      Photo(<< 97, 46 >> \o ExtJpg, D1, "none"),                  \* a.jpg
      Photo(<< 97, 46 >> \o ExtJpg, D2, "none"),
      Photo(<< 97, 46 >> \o ExtRaf, D2, "none"),                  \* a.raf
      Photo(<< 98, 46, 78, 69, 70 >>, D1, "none"),                \* b.NEF
      Photo(<< 48, 46 >> \o ExtNef, D1, "none"),                  \* 0.nef
      Photo(StaleName(pre, dig), D1, "none"),
      Photo(<< 99, 46, 112, 110, 103 >>, D1, "none"),             \* c.png
      Photo(<< 100, 46 >> \o ExtNef, DUnset, "none"),             \* d.nef
      Cand(<< 100, 46 >> \o ExtNef, "img",                        \* d.nef, no date tag
           Some(Meta(None, Some(ModelM))), "none"),
      Cand(<< 101, 46 >> \o ExtNef, "img",                        \* e.nef, no model tag
           Some(Meta(Some(exif_tag(D1)), None)), "none"),
      Cand(<< 102, 46, 116, 120, 116 >>, "img", None, "none") }   \* f.txt, no image

\* Entries a directory may hold besides, which the scan passes over: a
\* hidden file, a subdirectory and a sidecar without an image.
Extras ==
    { Photo(<< 46, 104, 46 >> \o ExtNef, D1, "none"),             \* .h.nef
      Cand(<< 115 >>, "dir", None, "none"),                       \* s/
      Cand(<< 120, 46 >> \o ExtXmp, "xmp", None, "none") }        \* x.xmp

\* The directories of at most MaxFiles candidates with distinct names.
Dirs(pre, dig) ==
    {S \in SUBSET Pool(pre, dig) :
        /\ Cardinality(S) <= MaxFiles
        /\ \A a, b \in S : a.name = b.name => a = b}

sidecar_name(name) == name \o << Ch.dot >> \o ExtXmp

\* The file system holding the candidates S and their sidecars.
MkFs(S) ==
    LET paths == {join(Dir, c.name) : c \in S}
                 \cup {join(Dir, sidecar_name(c.name)) : c \in {c \in S : c.side # "none"}}
        owner(p) == CHOOSE c \in S : \/ p = join(Dir, c.name)
                                     \/ (c.side # "none" /\ p = join(Dir, sidecar_name(c.name)))
    IN  [p \in paths |->
           LET c == owner(p)
           IN  IF p = join(Dir, c.name)
               THEN Entry(c.kind, p, c.meta,
                          IF c.kind = "xmp" THEN Some(Xml(TRUE, TRUE, Some(<< 120 >>))) ELSE None)
               ELSE Entry("xmp", p, None,
                          Some(Xml(TRUE, TRUE, IF c.side = "ok" THEN Some(c.name) ELSE None)))]

\* ------------------------------------------------------------------- state

VARIABLES
    fs,               \* the directory: path -> Entry
    prefix,           \* --prefix (or the default one), a string
    digits,           \* --digits, Option<u16>
    dryrun,           \* --dryrun
    run,              \* number of the current invocation of main
    pc,               \* where main is: "scan", "group", "reorganize", "loop",
                      \* "done", "error" (an Err reached main),
                      \* "scan_panicked", "group_panicked"
    imgs,             \* the Vec<ImgInfo> scan_for_images returned
    groups,           \* the Vec<ImgGroup> build_imgs_groups returned
    index_digits,     \* reorganize_images: digits
    gi,               \* position of the group iterator, 1-based
    mi,               \* position of the member iterator inside the group
    phase,            \* next call for the member: "img", "sidecar", "rewrite"
    new_img_path,     \* reorganize_images: new_img_path
    new_sidecar_path, \* reorganize_images: new_sidecar_path
    warnings,         \* stderr: path -> number of "Error reading ..." lines
    reported,         \* stdout: the << source name, target name >> lines
    fs0,              \* history: the directory when this run started
    assigned,         \* history: << group position, target name >> per image
    patched           \* history: what rewrite_sidecar_file wrote back

vars == << fs, prefix, digits, dryrun, run, pc, imgs, groups, index_digits, gi, mi, phase,
           new_img_path, new_sidecar_path, warnings, reported, fs0, assigned, patched >>

\* The state main starts a run in.
StartOfRun ==
    /\ pc = "scan"
    /\ imgs = << >>
    /\ groups = << >>
    /\ index_digits = 0
    /\ gi = 0
    /\ mi = 0
    /\ phase = "img"
    /\ new_img_path = << >>
    /\ new_sidecar_path = << >>
    /\ warnings = << >>
    /\ reported = << >>
    /\ assigned = {}
    /\ patched = {}

Init ==
    /\ prefix \in Prefixes
    /\ digits \in DigitsOpts
    /\ dryrun \in BOOLEAN
    /\ fs \in {MkFs(S \cup E) : S \in Dirs(prefix, digits), E \in {{}, Extras}}
    /\ fs0 = fs
    /\ run = 1
    /\ StartOfRun

\* ----------------------------------------------------------------- actions

\* scan_for_images: the entries are read in some order; an Err of read_img
\* is a warning and the entry is left out. A panic in read_img ends the
\* process; the workers run in parallel, so any of the warnings may have
\* been printed by then.
ScanForImages ==
    /\ pc = "scan"
    /\ \E ord \in Orderings(scan_entries(fs)) :
         LET errs == {q \in scan_entries(fs) : read_img(fs, q).res = "err"}
         IN  IF \E i \in 1..Len(ord) : read_img(fs, ord[i]).res = "panic"
             THEN /\ pc' = "scan_panicked"
                  /\ imgs' = imgs
                  /\ \E W \in SUBSET errs : warnings' = [p \in W |-> 1]
             ELSE /\ pc' = "group"
                  /\ imgs' = collect_imgs(fs, ord)
                  /\ warnings' = [p \in errs |-> Cardinality({i \in 1..Len(ord) : ord[i] = p})]
    /\ UNCHANGED << fs, prefix, digits, dryrun, run, groups, index_digits, gi, mi, phase,
                    new_img_path, new_sidecar_path, reported, fs0, assigned, patched >>

\* build_imgs_groups: consumes imgs.
BuildImgsGroups ==
    /\ pc = "group"
    /\ IF build_panics(imgs)
       THEN /\ pc' = "group_panicked"
            /\ UNCHANGED << imgs, groups >>
       ELSE /\ pc' = "reorganize"
            /\ groups' \in build_imgs_groups(imgs)
            /\ imgs' = << >>
    /\ UNCHANGED << fs, prefix, digits, dryrun, run, index_digits, gi, mi, phase,
                    new_img_path, new_sidecar_path, warnings, reported, fs0, assigned, patched >>

\* reorganize_images, up to the first iteration: the counter width.
ReorganizeBegin ==
    /\ pc = "reorganize"
    /\ pc' = "loop"
    /\ index_digits' = index_width(digits, Len(groups))
    /\ gi' = 1
    /\ mi' = 1
    /\ phase' = "img"
    /\ UNCHANGED << fs, prefix, digits, dryrun, run, imgs, groups, new_img_path,
                    new_sidecar_path, warnings, reported, fs0, assigned, patched >>

\* The index zipped with the group at position g.
index_of(g) == FirstIndex + (g - 1)

\* The iterators after the current member is finished.
NextMember ==
    /\ phase' = "img"
    /\ IF mi < Len(groups[gi])
       THEN gi' = gi /\ mi' = mi + 1
       ELSE gi' = gi + 1 /\ mi' = 1

\* println! of the line rename_file prints, when it prints one.
Log(out, r) == IF IsSome(r.printed) THEN Append(out, Unwrap(r.printed)) ELSE out

\* rename_file(&img.path, ..) for the current member.
RenameImg ==
    /\ pc = "loop" /\ gi <= Len(groups) /\ phase = "img"
    /\ LET img == groups[gi][mi]
           r   == rename_file(fs, img.path, index_of(gi), img, prefix, index_digits, dryrun)
       IN  /\ reported' = Log(reported, r)
           /\ assigned' = assigned \cup {<< gi, r.target >>}
           /\ fs' = r.fs
           /\ IF r.ok
              THEN /\ new_img_path' = r.path
                   /\ pc' = pc
                   /\ IF IsSome(img.sidecar_path)
                      THEN phase' = "sidecar" /\ UNCHANGED << gi, mi >>
                      ELSE NextMember
              ELSE /\ pc' = "error"
                   /\ UNCHANGED << new_img_path, gi, mi, phase >>
    /\ UNCHANGED << prefix, digits, dryrun, run, imgs, groups, index_digits, new_sidecar_path,
                    warnings, fs0, patched >>

\* rename_file(path, ..) for the sidecar of the current member.
RenameSidecar ==
    /\ pc = "loop" /\ gi <= Len(groups) /\ phase = "sidecar"
    /\ LET img == groups[gi][mi]
           r   == rename_file(fs, Unwrap(img.sidecar_path), index_of(gi), img, prefix,
                              index_digits, dryrun)
       IN  /\ reported' = Log(reported, r)
           /\ fs' = r.fs
           /\ IF r.ok
              THEN /\ new_sidecar_path' = r.path
                   /\ pc' = pc
                   /\ phase' = "rewrite"
              ELSE /\ pc' = "error"
                   /\ UNCHANGED << new_sidecar_path, phase >>
    /\ UNCHANGED << prefix, digits, dryrun, run, imgs, groups, index_digits, gi, mi,
                    new_img_path, warnings, fs0, assigned, patched >>

\* rewrite_sidecar_file(&new_sidecar_path, &new_img_path, dryrun).
RewriteSidecar ==
    /\ pc = "loop" /\ gi <= Len(groups) /\ phase = "rewrite"
    /\ LET r == rewrite_sidecar_file(fs, new_sidecar_path, new_img_path, dryrun)
       IN  /\ fs' = r.fs
           /\ IF r.ok
              THEN /\ pc' = pc
                   /\ NextMember
                   /\ patched' =
                        IF writes_back(dryrun)
                        THEN patched \cup {[sidecar |-> new_sidecar_path,
                                            img     |-> new_img_path,
                                            derived |-> Unwrap(r.fs[new_sidecar_path].xml).derived]}
                        ELSE patched
              ELSE /\ pc' = "error"
                   /\ UNCHANGED << gi, mi, phase, patched >>
    /\ UNCHANGED << prefix, digits, dryrun, run, imgs, groups, index_digits, new_img_path,
                    new_sidecar_path, warnings, reported, fs0, assigned >>

\* reorganize_images returns Ok(()) and main ends.
ReorganizeEnd ==
    /\ pc = "loop" /\ gi > Len(groups)
    /\ pc' = "done"
    /\ UNCHANGED << fs, prefix, digits, dryrun, run, imgs, groups, index_digits, gi, mi, phase,
                    new_img_path, new_sidecar_path, warnings, reported, fs0, assigned, patched >>

\* main is started again on the same directory with the same arguments.
Restart ==
    /\ pc = "done" /\ run < MaxRuns
    /\ run' = run + 1
    /\ fs0' = fs
    /\ pc' = "scan"
    /\ imgs' = << >>
    /\ groups' = << >>
    /\ index_digits' = 0
    /\ gi' = 0
    /\ mi' = 0
    /\ phase' = "img"
    /\ new_img_path' = << >>
    /\ new_sidecar_path' = << >>
    /\ warnings' = << >>
    /\ reported' = << >>
    /\ assigned' = {}
    /\ patched' = {}
    /\ UNCHANGED << fs, prefix, digits, dryrun >>

Next ==
    \/ ScanForImages
    \/ BuildImgsGroups
    \/ ReorganizeBegin
    \/ RenameImg
    \/ RenameSidecar
    \/ RewriteSidecar
    \/ ReorganizeEnd
    \/ Restart

Spec == Init /\ [][Next]_vars

\* ------------------------------------------------- counter width, n groups

\* A directory of n photos g01.nef, g02.nef, ... taken in the same second.
WidthDir(n) ==
    {Photo(<< 103 >> \o ZeroPad(Decimal(k), 2) \o << Ch.dot >> \o ExtNef, D1, "none") : k \in 1..n}

\* The state main is in when build_imgs_groups has returned the n groups of
\* such a directory.
InitWidth ==
    /\ prefix = << >>
    /\ digits \in DigitsOpts
    /\ dryrun \in BOOLEAN
    /\ \E n \in 0..MaxWidthGroups :
         /\ fs = MkFs(WidthDir(n))
         /\ groups \in build_imgs_groups(
                [k \in 1..n |-> Unwrap(read_img(fs, join(Dir, << 103 >> \o ZeroPad(Decimal(k), 2)
                                                         \o << Ch.dot >> \o ExtNef)).img)])
    /\ fs0 = fs
    /\ run = 1
    /\ pc = "reorganize"
    /\ imgs = << >>
    /\ index_digits = 0
    /\ gi = 0
    /\ mi = 0
    /\ phase = "img"
    /\ new_img_path = << >>
    /\ new_sidecar_path = << >>
    /\ warnings = << >>
    /\ reported = << >>
    /\ assigned = {}
    /\ patched = {}

NextWidth ==
    \/ ReorganizeBegin
    \/ RenameImg
    \/ ReorganizeEnd

SpecWidth == InitWidth /\ [][NextWidth]_vars

\* ------------------------------------------------------------------ claims

\* The counter field of a generated file name: the bytes before its first space.
CounterField(name) == SubSeq(name, 1, FirstIndexOf(name, Ch.sp) - 1)

RECURSIVE DecimalValue(_)
DecimalValue(s) == IF Len(s) = 0 THEN 0
                   ELSE 10 * DecimalValue(SubSeq(s, 1, Len(s) - 1)) + (s[Len(s)] - Ch.zero)

IsPrefix(a, b) == Len(a) <= Len(b) /\ SubSeq(b, 1, Len(a)) = a

\* Main has got the groups from build_imgs_groups.
Grouped == pc \in {"reorganize", "loop", "done", "error"}

\* C1: the groups build_imgs_groups returns are in ascending order of the
\* capture date (of the group's first image), groups of equal date in
\* ascending order of base path, and reorganize_images numbers them
\* 1, 2, ..., N in that order: the counter of every generated name is its
\* group's position, and a completed run has used exactly 1..N.
C1_SortedAndNumbered ==
    Grouped =>
      /\ \A i, j \in 1..Len(groups) : i < j =>
           \/ DateLess(groups[i][1].date, groups[j][1].date)
           \/ /\ groups[i][1].date = groups[j][1].date
              /\ StrLess(base_path(groups[i][1]), base_path(groups[j][1]))
      /\ \A a \in assigned : DecimalValue(CounterField(a[2])) = a[1]
      /\ pc = "done" =>
           {DecimalValue(CounterField(a[2])) : a \in assigned} = 1..Len(groups)

\* A completed run over three groups: two of the same date, and a third of
\* a later date whose base path is smaller than the second's.
C1_Witness ==
    /\ pc = "done"
    /\ Len(groups) = 3
    /\ groups[1][1].date = groups[2][1].date
    /\ DateLess(groups[2][1].date, groups[3][1].date)
    /\ StrLess(base_path(groups[3][1]), base_path(groups[2][1]))
    /\ Cardinality(assigned) = 3

\* C2: a run after a completed run that was allowed to rename, with the
\* same prefix and digits, finds every target equal to its source: it
\* prints no rename line and so calls std::fs::rename for no file.
C2_SecondRunRenamesNothing ==
    (run >= 2 /\ ~dryrun) => reported = << >>

\* The lines a run over the groups prints for the member at (k, m): the
\* image's, then its sidecar's, each only when target and source differ.
ExpectedLines(k, m) ==
    LET img    == groups[k][m]
        name   == file_name(img.path)
        target == target_file_name(k, img, prefix, index_digits, suffix_of(name))
        sname  == file_name(Unwrap(img.sidecar_path))
        starget == target_file_name(k, img, prefix, index_digits, suffix_of(sname))
    IN  (IF target # name THEN << << name, target >> >> ELSE << >>)
        \o (IF IsSome(img.sidecar_path) /\ starget # sname
            THEN << << sname, starget >> >> ELSE << >>)

RECURSIVE ExpectedFrom(_, _)
ExpectedFrom(k, m) ==
    IF k > Len(groups) THEN << >>
    ELSE ExpectedLines(k, m)
         \o (IF m < Len(groups[k]) THEN ExpectedFrom(k, m + 1) ELSE ExpectedFrom(k + 1, 1))

\* C3: a dry run leaves every file of the directory under its name and with
\* its content (no rename is executed, no sidecar is written), and the
\* lines it has printed are the renames whose target differs from the
\* source, in order; a dry run that completes has printed all of them.
C3_DryRunFrame ==
    dryrun =>
      /\ fs = fs0
      /\ pc \in {"loop", "done", "error"} => IsPrefix(reported, ExpectedFrom(1, 1))
      /\ pc = "done" => reported = ExpectedFrom(1, 1)

\* A completed dry run that printed at least three lines, one of them for
\* a sidecar.
C3_Witness ==
    /\ dryrun
    /\ pc = "done"
    /\ Len(reported) >= 3
    /\ \E i \in 1..Len(reported) : extension(reported[i][1]) = Some(ExtXmp)

\* An entry the scan reads whose capture timestamp is missing or unparseable.
BadTimestamp(f, p) ==
    /\ IsSome(f[p].meta)
    /\ \/ ~IsSome(Unwrap(f[p].meta).date)
       \/ ~IsSome(parse_from_str(Unwrap(Unwrap(f[p].meta).date)))

\* C4: when the only defect among the scanned entries is a missing or
\* unparseable capture timestamp, scan_for_images returns, every such
\* entry got exactly one warning, and none of them is in a group.
C4_BadTimestampSkipped ==
    (/\ pc # "scan"
     /\ \A p \in scan_entries(fs0) :
          IsSome(fs0[p].meta) => IsSome(Unwrap(fs0[p].meta).model))
    => /\ pc # "scan_panicked"
       /\ \A p \in scan_entries(fs0) : BadTimestamp(fs0, p) =>
            /\ p \in DOMAIN warnings
            /\ warnings[p] = 1
            /\ \A i \in 1..Len(imgs) : imgs[i].path # p
            /\ \A k \in 1..Len(groups) : \A m \in 1..Len(groups[k]) : groups[k][m].path # p

\* C5: every sidecar a run has rewritten is named as its renamed image
\* followed by ".xmp", and its xmpMM:DerivedFrom is the image's new file
\* name.
C5_SidecarFollowsImage ==
    \A e \in patched :
      /\ e.sidecar = e.img \o << Ch.dot >> \o ExtXmp
      /\ e.derived = Some(file_name(e.img))

\* The images the scan of directory f returns.
Scanned(f) == {Unwrap(read_img(f, p).img) : p \in {q \in scan_entries(f) : read_img(f, q).res = "ok"}}

HasRole(img, r) == ~role_panics(img) /\ role(img) = Some(r)

\* C6: a raw file and a camera JPG that share a base path (and have no
\* second raw file or JPG beside them) are members of one group, and the
\* names generated for the members of one group differ only in the
\* extension.
C6_PairSharesName ==
    Grouped =>
      /\ \A a, b \in Scanned(fs0) :
           (/\ HasRole(a, "Raw") /\ HasRole(b, "CameraJPG")
            /\ base_path(a) = base_path(b)
            /\ \A c \in Scanned(fs0) : base_path(c) = base_path(a) => c \in {a, b})
           => \E k \in 1..Len(groups) :
                {groups[k][m].path : m \in 1..Len(groups[k])} = {a.path, b.path}
      /\ \A x, y \in assigned : x[1] = y[1] => file_stem(x[2]) = file_stem(y[2])

\* C7: without --digits the counter width w is ceil(log10(N + 1)) for N
\* groups, that is 10^(w-1) < N + 1 <= 10^w (9 groups: 1, 10 groups: 2),
\* and every generated name carries its index in exactly w digits.
C7_WidthFitsEveryIndex ==
    (digits = None /\ pc \in {"loop", "done", "error"}) =>
      /\ Pow10(index_digits) >= Len(groups) + 1
      /\ index_digits > 0 => Pow10(index_digits - 1) < Len(groups) + 1
      /\ Len(groups) = 9 => index_digits = 1
      /\ Len(groups) = 10 => index_digits = 2
      /\ \A a \in assigned :
           /\ Len(CounterField(a[2])) = index_digits
           /\ DecimalValue(CounterField(a[2])) = a[1]

\* A completed run over 10 groups without --digits: the last name carries "10".
C7_Witness ==
    /\ digits = None
    /\ pc = "done"
    /\ Len(groups) = 10
    /\ index_digits = 2
    /\ \E a \in assigned : a[1] = 10 /\ CounterField(a[2]) = << 49, 48 >>

\* The groups as the claim compares them: in order, each with its members.
GroupsView(G) == [k \in 1..Len(G) |-> {G[k][m].path : m \in 1..Len(G[k])}]

\* C8: whatever the order in which the scan delivers the files, and whatever
\* order the members of a group are iterated in, build_imgs_groups returns
\* the same groups in the same order with the same members.
C8_OrderIndependent ==
    pc = "reorganize" =>
      \A ord \in Orderings(scan_entries(fs0)) :
         \A G \in build_imgs_groups(collect_imgs(fs0, ord)) : GroupsView(G) = GroupsView(groups)

\* C9: build_imgs_groups does not crash on a scanned file whose extension
\* maps to no role; the file is in no group and the other files are grouped.
C9_UnknownRoleDropped ==
    /\ pc # "group_panicked"
    /\ Grouped =>
         /\ \A k \in 1..Len(groups) : \A m \in 1..Len(groups[k]) :
              IsSome(role(groups[k][m]))
         /\ \A a \in Scanned(fs0) :
              (~role_panics(a) /\ IsSome(role(a))) =>
                \E k \in 1..Len(groups) : \E m \in 1..Len(groups[k]) :
                   base_path(groups[k][m]) = base_path(a)

\* C10: a run that renames destroys no file: at every step the directory
\* holds as many entries as when the run started, and the same ones.
C10_NoFileDestroyed ==
    ~dryrun =>
      /\ Cardinality(DOMAIN fs) = Cardinality(DOMAIN fs0)
      /\ {fs[p].orig : p \in DOMAIN fs} = {fs0[p].orig : p \in DOMAIN fs0}

====
